---- MODULE Spec2Model ----
(***************************************************************************)
(* Model of src/src/main.rs: the helper! templating macro, indent(), the   *)
(* three report renderers and generate_testbench().                        *)
(*                                                                         *)
(* Text is a sequence of atoms.  The atoms "\n", "\r" and " " are single   *)
(* characters; every other atom is a run of characters without a line      *)
(* break (a letter, a name, a chunk of template text).                     *)
(* Option<T> is a sequence: <<>> is None, <<x>> is Some(x).                *)
(***************************************************************************)
EXTENDS Naturals, Sequences, FiniteSets

NL == "\n"
CR == "\r"
SP == " "

\* ---- bounds of the model ------------------------------------------------
MaxElems == 2      \* longest collection handed to helper!
MaxConds == 2      \* most ??? conditions of one helper! call
MaxLevel == 2      \* largest >>> level / indent width tried directly
MaxLen   == 4      \* longest text handed to indent() directly

\* ---- str::lines(), as used by indent ------------------------------------
\* As the standard library documents it: a line ends at "\n" or "\r\n", the
\* terminator is not part of the line, a final terminator opens no further
\* line, and a "\r" that is not followed by "\n" stays in its line.
\* split_inclusive('\n'): pieces that end with their "\n"; a last piece
\* without "\n" is kept when it is not empty.
RECURSIVE split_inclusive(_, _, _)
split_inclusive(src, i, cur) ==
    IF i > Len(src)
    THEN IF cur = <<>> THEN <<>> ELSE <<cur>>
    ELSE IF src[i] = NL
         THEN <<Append(cur, NL)>> \o split_inclusive(src, i + 1, <<>>)
         ELSE split_inclusive(src, i + 1, Append(cur, src[i]))

\* One piece to one line: drop the final "\n", then one "\r" before it.
LinesMap(piece) ==
    IF piece = <<>> \/ piece[Len(piece)] # NL
    THEN piece
    ELSE LET l == SubSeq(piece, 1, Len(piece) - 1)
         IN  IF l # <<>> /\ l[Len(l)] = CR
             THEN SubSeq(l, 1, Len(l) - 1)
             ELSE l

\* A lines() that behaves as split('\n'): one empty line for empty text.
linesAsSplit(src) ==
    LET P == split_inclusive(src, 1, <<>>)
        Q == IF src = <<>> \/ src[Len(src)] = NL THEN Append(P, <<>>) ELSE P
    IN  [i \in 1..Len(Q) |-> LinesMap(Q[i])]

lines(src) ==
    LET P == split_inclusive(src, 1, <<>>)
    IN  [i \in 1..Len(P) |-> LinesMap(P[i])]

\* ---- indent -------------------------------------------------------------
repeat(level) == [i \in 1..level |-> SP]

\* A loop whose body runs once before the iterator is asked for a line.
indentLoopAtLeastOnce(spaces, L, idx, out) ==
    LET RECURSIVE go(_, _)
        go(i, o) ==
            IF i >= Len(L) /\ i > 0 THEN o
            ELSE go(i + 1, (IF i > 0 THEN o \o spaces ELSE o)
                               \o (IF i < Len(L) THEN L[i + 1] ELSE <<>>) \o <<NL>>)
    IN  go(idx, out)

\* The body of the for loop of indent, from 0-based index idx on.
RECURSIVE indentLoop(_, _, _, _)
indentLoop(spaces, L, idx, out) ==
    IF idx >= Len(L)
    THEN out
    ELSE indentLoop(spaces, L, idx + 1,
                    (IF idx > 0 THEN out \o spaces ELSE out)
                        \o L[idx + 1] \o <<NL>>)

\* indent that prefixes the first line as well.
indentFirstToo(level, src) ==
    LET L == lines(src)
        RECURSIVE go(_, _)
        go(idx, out) ==
            IF idx >= Len(L) THEN out
            ELSE go(idx + 1, out \o repeat(level) \o L[idx + 1] \o <<NL>>)
    IN  go(0, <<>>)

\* indent that joins the lines with "\n" instead of ending each with it.
indentNoFinalNewline(level, src) ==
    LET r == indentLoop(repeat(level), lines(src), 0, <<>>)
    IN  IF r = <<>> THEN r ELSE SubSeq(r, 1, Len(r) - 1)

\* indent that pushes the spaces after the line break of every line.
indentAfterEveryNewline(level, src) ==
    LET L == lines(src)
        RECURSIVE go(_, _)
        go(idx, out) ==
            IF idx >= Len(L) THEN out
            ELSE go(idx + 1, out \o L[idx + 1] \o <<NL>> \o repeat(level))
    IN  go(0, <<>>)

indent(level, src) ==
    indentLoop(repeat(level), lines(src), 0, <<>>)

\* ---- the domain model ---------------------------------------------------
\* A String field is a text; Option<String> is <<>> or <<text>>.
Stage(name, stall, flush) ==
    [name |-> name, description |-> <<"stage">>, stall |-> stall, flush |-> flush]

Hazard(name, condition) ==
    [name |-> name, description |-> <<"foo">>, condition |-> condition]

Forward(name, condition, from, to) ==
    [name |-> name, description |-> <<"foo">>, condition |-> condition,
     from |-> from, to |-> to]

Posedge(n) == [edge |-> "Posedge", name |-> n]
Negedge(n) == [edge |-> "Negedge", name |-> n]
Edge(n)    == [edge |-> "Edge", name |-> n]

Pipeline(clock, stages, hazards, forwards) ==
    [name |-> <<"RISCV">>, description |-> <<"CPU">>, clock |-> clock,
     stages |-> stages, hazards |-> hazards, forwards |-> forwards]

\* Option<String>::unwrap_or
unwrap_or(opt, default) == IF opt = <<>> THEN default ELSE opt[1]

\* ---- the renderers ------------------------------------------------------
\* A stage renderer whose two arguments of status() are swapped.
generate_stage_report_swapped(stage) ==
    LET stall_ == unwrap_or(stage.stall, <<"1'b0">>)
        flush_ == unwrap_or(stage.flush, <<"1'b0">>)
    IN  <<"$display(\"%s ">> \o stage.name \o <<"\\x1B[0m\", ", "status(">>
            \o flush_ \o <<",", SP>> \o stall_ \o <<"));">>

generate_stage_report(stage) ==
    LET stall_ == unwrap_or(stage.stall, <<"1'b0">>)
        flush_ == unwrap_or(stage.flush, <<"1'b0">>)
    IN  <<"$display(\"%s ">> \o stage.name \o <<"\\x1B[0m\", ", "status(">>
            \o stall_ \o <<",", SP>> \o flush_ \o <<"));">>

generate_hazard_report(hazard) ==
    <<"$display(\"%s ">> \o hazard.name \o <<"\\x1B[0m\", ", "hazard_mark(">>
        \o hazard.condition \o <<"));">>

generate_forward_report(forward) ==
    <<"$display(\"%s ">> \o forward.name \o <<"\\x1B[0m\", ", "forward_mark(">>
        \o forward.condition \o <<"));">>

\* ---- what a caller hands to helper! --------------------------------------
\* Elements of a caller's collection and the text its $map gives for each.
Elems == 1..5

Fragment(e) ==
    CASE e = 1 -> <<"a">>
      [] e = 2 -> <<>>
      [] e = 3 -> <<"b", NL, "c">>
      [] e = 4 -> <<"d", CR, NL>>
      [] e = 5 -> <<"e", ",">>

\* $map: the expression that gives the text of one element.
Map(map, e) ==
    CASE map = "fragment" -> Fragment(e)
      [] map = "stage"    -> generate_stage_report(e)
      [] map = "hazard"   -> generate_hazard_report(e)
      [] map = "forward"  -> generate_forward_report(e)

\* $cond: the conditions a caller can give.
CondSet == {"true", "false", "odd"}

Cond(cond, e) ==
    CASE cond = "true"  -> TRUE
      [] cond = "false" -> FALSE
      [] cond = "odd"   -> e % 2 = 1

\* $joiner
JoinerSet == { <<>>, << <<",">> >>, << <<NL>> >>, << <<",", SP>> >> }

\* $level
LevelSet == { <<>> } \cup { <<n>> : n \in 0..MaxLevel }

SeqsUpTo(S, n) == UNION { [1..k -> S] : k \in 0..n }

\* ---- the steps of helper! -------------------------------------------------
\* `if !$cond { continue; }` that goes on to the next condition instead.
AfterCondNoContinue(ok, i, k, n) == [idx |-> i, cidx |-> k + 1]

\* Conditions taken as alternatives: one that holds lets the element through.
AfterCondAny(ok, i, k, n) ==
    IF ok THEN [idx |-> i, cidx |-> n + 1]
    ELSE IF k < n THEN [idx |-> i, cidx |-> k + 1]
    ELSE [idx |-> i + 1, cidx |-> 1]

\* `if !$cond { continue; }`: where the loop is after condition k, of n, of
\* element i.
AfterCond(ok, i, k, n) ==
    IF ok THEN [idx |-> i, cidx |-> k + 1] ELSE [idx |-> i + 1, cidx |-> 1]

\* A stitch that never takes effect: no separator is pushed.
PushJoinerNever(st, str, j) == str

\* A separator pushed before every element, the first included.
PushJoinerAlways(st, str, j) == IF j = <<>> THEN str ELSE str \o j[1]

\* `if stitch { s.push_str($joiner) }`
PushJoiner(st, str, j) ==
    IF st THEN (IF j = <<>> THEN str ELSE str \o j[1]) ELSE str

\* The indentation applied whenever a level is given, 0 included.
ApplyLevelAlways(lv, str) == IF lv # <<>> THEN indent(lv[1], str) ELSE str

\* `if $level > 0 { s = indent($level, &s); }`
ApplyLevel(lv, str) ==
    IF lv # <<>> /\ lv[1] > 0 THEN indent(lv[1], str) ELSE str

\* ---- the pipelines generate_testbench is run on ---------------------------
StageSet ==
    { Stage(<<"IF">>, << <<"s1">> >>, <<>>),
      Stage(<<"WB">>, <<>>, << <<"warp">> >>) }

HazardSet == { Hazard(<<"ID/EX">>, <<"conflict_decode">>) }

ForwardSet ==
    { Forward(<<"EX/EX">>, <<"conflict_execute">>,
              Stage(<<"IF">>, << <<"s1">> >>, <<>>),
              Stage(<<"WB">>, <<>>, << <<"warp">> >>)) }

ClockSet == { Posedge(<<"clk">>), Negedge(<<"clk">>), Edge(<<"clk">>) }

PipelineSet ==
    { Pipeline(c, st, hz, fw) :
        c \in ClockSet, st \in SeqsUpTo(StageSet, MaxElems),
        hz \in SeqsUpTo(HazardSet, MaxElems), fw \in SeqsUpTo(ForwardSet, MaxElems) }

NoPipeline == Pipeline(Posedge(<<>>), <<>>, <<>>, <<>>)

\* The texts indent is run on directly.
Alphabet == {"a", SP, NL, CR}

\* ---- the state ------------------------------------------------------------
VARIABLES
    phase,       \* what runs: "helper", "indent", or the helper! call of
                 \* generate_testbench under way ("stages", "hazards", "forwards")
    pc,          \* the position in it
    pipe,        \* generate_testbench: its argument
    collection,  \* helper!: $collection
    conds,       \* helper!: the $cond list
    level,       \* helper!: Option of $level
    joiner,      \* helper!: Option of $joiner
    map,         \* helper!: $map
    idx,         \* helper!: the element the for loop is at (1-based)
    cidx,        \* helper!: the condition evaluated next for that element
    s,           \* helper!: let mut s
    stitch,      \* helper!: let mut stitch
    result,      \* the value the helper! block or indent gave
    log,         \* the evaluations of $cond and $map so far, in order
    width,       \* indent called directly: level
    src,         \* indent called directly: src
    clock_,      \* generate_testbench: _clock_
    stages_,     \* generate_testbench: _stages_
    hazards_,    \* generate_testbench: _hazards_
    forwards_,   \* generate_testbench: _forwards_
    output       \* generate_testbench: the String returned

vars == <<phase, pc, pipe, collection, conds, level, joiner, map, idx, cidx, s,
          stitch, result, log, width, src, clock_, stages_, hazards_, forwards_,
          output>>

helperVars == <<collection, conds, level, joiner, map, idx, cidx, s, stitch, log>>
tbVars == <<pipe, clock_, stages_, hazards_, forwards_, output>>

\* `let mut s = String::new(); let mut stitch = false;` and the loop's start.
Enter(c, cs, lv, j, m) ==
    /\ collection' = c
    /\ conds' = cs
    /\ level' = lv
    /\ joiner' = j
    /\ map' = m
    /\ idx' = 1
    /\ cidx' = 1
    /\ s' = <<>>
    /\ stitch' = FALSE
    /\ log' = <<>>

InitHelper ==
    /\ phase = "helper"
    /\ pc = "for"
    /\ collection \in SeqsUpTo(Elems, MaxElems)
    /\ conds \in SeqsUpTo(CondSet, MaxConds)
    /\ level \in LevelSet
    /\ joiner \in JoinerSet
    /\ map = "fragment"
    /\ pipe = NoPipeline
    /\ width = 0
    /\ src = <<>>

InitIndent ==
    /\ phase = "indent"
    /\ pc = "indent"
    /\ width \in 0..MaxLevel
    /\ src \in SeqsUpTo(Alphabet, MaxLen)
    /\ collection = <<>> /\ conds = <<>> /\ level = <<>> /\ joiner = <<>>
    /\ map = "fragment"
    /\ pipe = NoPipeline

InitTestbench ==
    /\ phase = "testbench"
    /\ pc = "clock"
    /\ pipe \in PipelineSet
    /\ collection = <<>> /\ conds = <<>> /\ level = <<>> /\ joiner = <<>>
    /\ map = "fragment"
    /\ width = 0
    /\ src = <<>>

Init ==
    /\ InitHelper \/ InitIndent \/ InitTestbench
    /\ idx = 1 /\ cidx = 1 /\ s = <<>> /\ stitch = FALSE
    /\ result = <<>> /\ log = <<>>
    /\ clock_ = <<>> /\ stages_ = <<>> /\ hazards_ = <<>> /\ forwards_ = <<>>
    /\ output = <<>>

\* ---- helper!, one step of its loop at a time -------------------------------
\* line 22: the next condition of the element the loop is at.
EvalCond ==
    /\ pc = "for"
    /\ idx <= Len(collection)
    /\ cidx <= Len(conds)
    /\ LET ok == Cond(conds[cidx], collection[idx])
           to == AfterCond(ok, idx, cidx, Len(conds))
       IN  /\ idx' = to.idx
           /\ cidx' = to.cidx
           /\ log' = Append(log, <<"cond", idx, cidx>>)
    /\ UNCHANGED <<phase, pc, collection, conds, level, joiner, map, s, stitch,
                   result, width, src>>
    /\ UNCHANGED tbVars

\* lines 25-33: the element passed every condition.
Emit ==
    /\ pc = "for"
    /\ idx <= Len(collection)
    /\ cidx > Len(conds)
    /\ s' = PushJoiner(stitch, s, joiner) \o Map(map, collection[idx])
    /\ stitch' = TRUE
    /\ log' = Append(log, <<"map", idx>>)
    /\ idx' = idx + 1
    /\ cidx' = 1
    /\ UNCHANGED <<phase, pc, collection, conds, level, joiner, map, result,
                   width, src>>
    /\ UNCHANGED tbVars

\* lines 37-38: the collection is exhausted.
Finish ==
    /\ pc = "for"
    /\ idx > Len(collection)
    /\ s' = ApplyLevel(level, s)
    /\ result' = s'
    /\ pc' = "ret"
    /\ UNCHANGED <<phase, collection, conds, level, joiner, map, idx, cidx,
                   stitch, log, width, src>>
    /\ UNCHANGED tbVars

\* ---- indent called on its own ----------------------------------------------
CallIndent ==
    /\ pc = "indent"
    /\ result' = indent(width, src)
    /\ pc' = "ret"
    /\ UNCHANGED <<phase, width, src>>
    /\ UNCHANGED helperVars
    /\ UNCHANGED tbVars

\* ---- generate_testbench ------------------------------------------------------
\* `>>> 4,` of the three helper! calls.
TestbenchLevel == 4

\* The match on the clock edge.
RenderClock(clock) ==
    CASE clock.edge = "Posedge" -> <<"posedge", SP>> \o clock.name
      [] clock.edge = "Negedge" -> <<"negedge", SP>> \o clock.name
      [] clock.edge = "Edge"    -> <<"edge", SP>> \o clock.name

\* The format! of the skeleton.  Glyphs outside ASCII are written in ASCII.
Skeleton(name, description, clk, st, hz, fw) ==
    << "function string status(input stall, flush);", NL,
       NL,
       "    case (1'b1)", NL,
       "        flush:   return \"\\x1B[1;31m[FLUSH] \\x1B[0m\";", NL,
       "        stall:   return \"\\x1B[1;33m[STALL] \\x1B[0m\";", NL,
       "        default: return \"\\x1B[1;32m[ACTIVE]\\x1B[0m\";", NL,
       "    endcase", NL,
       NL,
       "endfunction", NL,
       "        ", NL,
       "function string hazard_mark(input condition);", NL,
       NL,
       "    if (condition) return \"\\x1B[1;33m ! \";", NL,
       "    else           return \"\\x1B[1;32m 0 \";", NL,
       NL,
       "endfunction", NL,
       NL,
       "function string forward_mark(input condition);", NL,
       NL,
       "    if (condition) return \"\\x1B[1;33m -> \";", NL,
       "    else           return \"\\x1B[1;37m 0 \";", NL,
       NL,
       "endfunction", NL,
       NL,
       "initial begin", NL,
       NL,
       "    $display(\"###   " >>
    \o name \o <<": ">> \o description \o
    << "   ###\");", NL,
       "    $display();", NL,
       "    $display();", NL,
       NL,
       "end", NL,
       NL,
       "always @(" >>
    \o clk \o
    << ") begin", NL,
       NL,
       "\t$display(\"---\");", NL,
       "\t$display();", NL,
       NL,
       "    $display(\"= STAGES =\");", NL,
       "    " >>
    \o st \o
    << NL,
       "    $display();", NL,
       "    $display(\"= HAZARDS =\");", NL,
       "    " >>
    \o hz \o
    << NL,
       "    $display();", NL,
       "    $display(\"= FORWARDS =\");", NL,
       "    " >>
    \o fw \o
    << NL,
       "    $display();", NL,
       NL,
       "end" >>

\* lines 136-140
Clock ==
    /\ pc = "clock"
    /\ clock_' = RenderClock(pipe.clock)
    /\ pc' = "stages"
    /\ UNCHANGED <<phase, result, width, src, pipe, stages_, hazards_, forwards_,
                   output>>
    /\ UNCHANGED helperVars

\* lines 142-147: the helper! block over the stages is entered.
CallStages ==
    /\ pc = "stages"
    /\ Enter(pipe.stages, <<>>, <<TestbenchLevel>>, << <<NL>> >>, "stage")
    /\ phase' = "stages"
    /\ pc' = "for"
    /\ UNCHANGED <<result, width, src>>
    /\ UNCHANGED tbVars

\* lines 142-154: _stages_ is bound, the block over the hazards is entered.
CallHazards ==
    /\ pc = "ret"
    /\ phase = "stages"
    /\ stages_' = result
    /\ Enter(pipe.hazards, <<>>, <<TestbenchLevel>>, << <<NL>> >>, "hazard")
    /\ phase' = "hazards"
    /\ pc' = "for"
    /\ UNCHANGED <<result, width, src, pipe, clock_, hazards_, forwards_, output>>

\* lines 149-161: _hazards_ is bound, the block over the forwards is entered.
CallForwards ==
    /\ pc = "ret"
    /\ phase = "hazards"
    /\ hazards_' = result
    /\ Enter(pipe.forwards, <<>>, <<TestbenchLevel>>, << <<NL>> >>, "forward")
    /\ phase' = "forwards"
    /\ pc' = "for"
    /\ UNCHANGED <<result, width, src, pipe, clock_, stages_, forwards_, output>>

\* lines 156-212: _forwards_ is bound and the skeleton is filled in.
Format ==
    /\ pc = "ret"
    /\ phase = "forwards"
    /\ forwards_' = result
    /\ output' = Skeleton(pipe.name, pipe.description, clock_, stages_, hazards_,
                          forwards_')
    /\ phase' = "testbench"
    /\ pc' = "done"
    /\ UNCHANGED <<result, width, src, pipe, clock_, stages_, hazards_>>
    /\ UNCHANGED helperVars

Next ==
    \/ EvalCond
    \/ Emit
    \/ Finish
    \/ CallIndent
    \/ Clock
    \/ CallStages
    \/ CallHazards
    \/ CallForwards
    \/ Format

Spec == Init /\ [][Next]_vars

\* ---- definitions the properties are stated with ---------------------------
\* A helper! block is running or has just given its value.
InHelper == phase \in {"helper", "stages", "hazards", "forwards"}

Returned == InHelper /\ pc = "ret"

\* Every condition of cs holds of e.
AllHold(cs, e) == \A k \in 1..Len(cs) : Cond(cs[k], e)

\* The elements of the collection that every condition of cs lets through.
Passing(cs) == SelectSeq(collection, LAMBDA e : AllHold(cs, e))

\* The separator as a text: empty when none is given.
Sep == IF joiner = <<>> THEN <<>> ELSE joiner[1]

\* The texts of a sequence of elements, with sep between neighbours.
RECURSIVE JoinTexts(_, _)
JoinTexts(es, sep) ==
    IF es = <<>> THEN <<>>
    ELSE IF Len(es) = 1 THEN Map(map, es[1])
    ELSE Map(map, es[1]) \o sep \o JoinTexts(Tail(es), sep)

\* pat occurs in text at position i.
OccursAt(pat, text, i) ==
    /\ i + Len(pat) - 1 <= Len(text)
    /\ SubSeq(text, i, i + Len(pat) - 1) = pat

\* The occurrences of a non-empty pat in text from position i on, counted
\* from the left without overlap.
RECURSIVE CountFrom(_, _, _)
CountFrom(pat, text, i) ==
    IF i > Len(text) THEN 0
    ELSE IF OccursAt(pat, text, i) THEN 1 + CountFrom(pat, text, i + Len(pat))
    ELSE CountFrom(pat, text, i + 1)

Count(pat, text) == CountFrom(pat, text, 1)

Contains(text, pat) == \E i \in 1..Len(text) : OccursAt(pat, text, i)

Atoms(text) == { text[i] : i \in 1..Len(text) }

\* How often the atom a stands in text.
AtomCount(a, text) == Cardinality({ i \in 1..Len(text) : text[i] = a })

Spaces(n) == [i \in 1..n |-> SP]

\* text with n spaces put after each "\n"; after the last character of the
\* text too when final is TRUE.
RECURSIVE InsertAfterNewlines(_, _, _, _)
InsertAfterNewlines(n, text, i, final) ==
    IF i > Len(text) THEN <<>>
    ELSE IF text[i] = NL /\ (final \/ i < Len(text))
         THEN <<NL>> \o Spaces(n) \o InsertAfterNewlines(n, text, i + 1, final)
         ELSE <<text[i]>> \o InsertAfterNewlines(n, text, i + 1, final)

\* text without the "\r" that stands right before a "\n".
RECURSIVE DropCrBeforeNl(_, _)
DropCrBeforeNl(text, i) ==
    IF i > Len(text) THEN <<>>
    ELSE IF text[i] = CR /\ i < Len(text) /\ text[i + 1] = NL
         THEN DropCrBeforeNl(text, i + 1)
         ELSE <<text[i]>> \o DropCrBeforeNl(text, i + 1)

\* text closed by a "\n" when it is not empty and does not end with one.
EndWithNl(text) ==
    IF text = <<>> \/ text[Len(text)] = NL THEN text ELSE Append(text, NL)

\* ---- C1 ------------------------------------------------------------------------
\* What the number of separators should be for n elements let through.
SepsFor(n) == IF n >= 1 THEN n - 1 ELSE 0

\* C1 as stated: for every non-empty separator, the separator occurs in the
\* returned text (number of passing elements - 1) times, and not at all when
\* 0 or 1 element passes.
C1_SeparatorCount ==
    (Returned /\ joiner # <<>>)
        => Count(Sep, result) = SepsFor(Len(Passing(conds)))

\* No character of the separator occurs in the text of a passing element, and
\* when a level > 0 is given the separator holds no space and no line break.
SeparatorApart ==
    /\ \A i \in 1..Len(Passing(conds)) :
           Atoms(Map(map, Passing(conds)[i])) \cap Atoms(Sep) = {}
    /\ \/ level = <<>>
       \/ level[1] = 0
       \/ Atoms(Sep) \cap {SP, NL, CR} = {}

\* C1 amended: for a non-empty separator none of whose characters occurs in
\* the text of a passing element, and which holds no space or line break when
\* a level > 0 is given, the separator occurs in the returned text (number of
\* passing elements - 1) times, and not at all when 0 or 1 element passes.
C1_SeparatorCountApart ==
    (Returned /\ joiner # <<>> /\ SeparatorApart)
        => Count(Sep, result) = SepsFor(Len(Passing(conds)))

C1_Witness ==
    /\ Returned
    /\ phase = "helper"
    /\ joiner = << <<",">> >>
    /\ level # <<>>
    /\ level[1] > 0
    /\ conds # <<>>
    /\ SeparatorApart
    /\ Len(Passing(conds)) = 2
    /\ Count(Sep, result) = 1

\* ---- C5 ------------------------------------------------------------------------
\* C5: with no condition and no level, the returned text is the texts of all
\* elements in the order of the collection, with the separator (or nothing)
\* between neighbours and nowhere else.
C5_NoCondsJoinsAll ==
    (Returned /\ conds = <<>> /\ level = <<>>)
        => result = JoinTexts(collection, Sep)

C5_Witness ==
    /\ Returned
    /\ conds = <<>>
    /\ level = <<>>
    /\ joiner # <<>>
    /\ Len(collection) = 2
    /\ collection[1] # collection[2]
    /\ Contains(result, Sep)

\* ---- C6 ------------------------------------------------------------------------
\* The indices of the elements $map was evaluated for, in the order of the log.
RECURSIVE MappedOf(_)
MappedOf(l) ==
    IF l = <<>> THEN <<>>
    ELSE IF l[1][1] = "map" THEN <<l[1][2]>> \o MappedOf(Tail(l))
    ELSE MappedOf(Tail(l))

\* The indices of the elements every condition of cs holds of, ascending.
RECURSIVE PassingIndices(_, _)
PassingIndices(cs, i) ==
    IF i > Len(collection) THEN <<>>
    ELSE IF AllHold(cs, collection[i]) THEN <<i>> \o PassingIndices(cs, i + 1)
    ELSE PassingIndices(cs, i + 1)

\* The returned text for the elements es let through.
TextOf(es) ==
    IF level # <<>> /\ level[1] > 0
    THEN indent(level[1], JoinTexts(es, Sep))
    ELSE JoinTexts(es, Sep)

\* C6: an element contributes iff every condition holds of it; with an
\* always-false condition the returned text is empty; the returned text is
\* the one the conditions without the always-true ones give.
C6_CondsConjunctive ==
    Returned =>
        /\ MappedOf(log) = PassingIndices(conds, 1)
        /\ (\E k \in 1..Len(conds) : conds[k] = "false") => result = <<>>
        /\ result = TextOf(Passing(SelectSeq(conds, LAMBDA c : c # "true")))

C6_Witness ==
    /\ Returned
    /\ Len(conds) = 2
    /\ \E k \in 1..2 : conds[k] = "true"
    /\ \E k \in 1..2 : conds[k] = "odd"
    /\ Len(Passing(conds)) >= 1
    /\ Len(Passing(conds)) < Len(collection)
    /\ result # <<>>

\* ---- C7 ------------------------------------------------------------------------
\* C7: for an empty collection the returned text is empty, whatever the
\* separator and the level.
C7_EmptyCollection ==
    (Returned /\ collection = <<>>) => result = <<>>

C7_Witness ==
    /\ Returned
    /\ phase = "helper"
    /\ collection = <<>>
    /\ joiner # <<>>
    /\ level # <<>>
    /\ level[1] > 0
    /\ result = <<>>

\* ---- C8 ------------------------------------------------------------------------
\* The first condition that fails for element i; 0 when none does.
FirstFail(i) ==
    IF AllHold(conds, collection[i]) THEN 0
    ELSE CHOOSE k \in 1..Len(conds) :
             /\ ~Cond(conds[k], collection[i])
             /\ \A j \in 1..(k - 1) : Cond(conds[j], collection[i])

\* The evaluations for element i: its conditions in declaration order up to
\* the first that fails, then $map once when none fails.
ElemLog(i) ==
    LET f == FirstFail(i)
        n == IF f = 0 THEN Len(conds) ELSE f
    IN  [k \in 1..n |-> <<"cond", i, k>>]
            \o (IF f = 0 THEN << <<"map", i>> >> ELSE <<>>)

\* The evaluations for the elements before i, in collection order.
RECURSIVE LogBefore(_)
LogBefore(i) == IF i <= 1 THEN <<>> ELSE LogBefore(i - 1) \o ElemLog(i - 1)

\* C8: at every point of a run the evaluations made so far are those of the
\* elements already visited, in collection order, each with its conditions in
\* declaration order up to the first failure and $map once iff none failed,
\* followed by the conditions already evaluated for the current element.
C8_EvaluationOrder ==
    (InHelper /\ pc \in {"for", "ret"})
        => log = LogBefore(idx) \o [k \in 1..(cidx - 1) |-> <<"cond", idx, k>>]

C8_Witness ==
    /\ Returned
    /\ Len(conds) = 2
    /\ Len(collection) = 2
    /\ FirstFail(1) = 1
    /\ FirstFail(2) = 0
    /\ log = << <<"cond", 1, 1>>, <<"cond", 2, 1>>, <<"cond", 2, 2>>, <<"map", 2>> >>

\* ---- C2 ------------------------------------------------------------------------
\* The step in which a helper! block gives its value.
Returning == InHelper /\ pc = "for" /\ pc' = "ret"

\* C2 as stated: with level 0 or none the returned text is the joined text;
\* with level N > 0 it is the joined text with N spaces put after every
\* newline, nothing else added or removed.
C2_IndentAfterEveryNewline ==
    [][Returning =>
         result' = IF level = <<>> \/ level[1] = 0
                   THEN s
                   ELSE InsertAfterNewlines(level[1], s, 1, TRUE)]_vars

\* C2 amended: with level 0 or none the returned text is the joined text;
\* with level N > 0 it is the joined text with every "\r" right before a
\* newline dropped, a newline added at the end when the joined text is not
\* empty and does not end with one, and N spaces put after every newline but
\* the last one; nothing else is added or removed.
C2_IndentContinuationLines ==
    [][Returning =>
         result' = IF level = <<>> \/ level[1] = 0
                   THEN s
                   ELSE InsertAfterNewlines(level[1],
                            EndWithNl(DropCrBeforeNl(s, 1)), 1, FALSE)]_vars

C2_Witness ==
    /\ Returned
    /\ phase = "helper"
    /\ level = <<2>>
    /\ joiner = <<>>
    /\ collection = <<4, 3>>
    /\ result = <<"d", NL, SP, SP, "b", NL, SP, SP, "c", NL>>

\* ---- C3 ------------------------------------------------------------------------
\* The positions of src at which a line starts: the first, and the one after
\* each "\n", when there is a character there.
LineStarts(text) ==
    { p \in 1..Len(text) : p = 1 \/ text[p - 1] = NL }

\* The line of text that starts at p, without its line terminator.
LineAt(text, p) ==
    LET ends == { q \in p..Len(text) : text[q] = NL }
    IN  IF ends = {}
        THEN SubSeq(text, p, Len(text))
        ELSE LET q == CHOOSE x \in ends : \A y \in ends : x <= y
                 l == SubSeq(text, p, q - 1)
             IN  IF l # <<>> /\ l[Len(l)] = CR
                 THEN SubSeq(l, 1, Len(l) - 1)
                 ELSE l

RECURSIVE Ascending(_)
Ascending(S) ==
    IF S = {} THEN <<>>
    ELSE LET m == CHOOSE x \in S : \A y \in S : x <= y
         IN  <<m>> \o Ascending(S \ {m})

\* The lines of text, in their order.
LinesOf(text) ==
    LET st == Ascending(LineStarts(text))
    IN  [i \in 1..Len(st) |-> LineAt(text, st[i])]

\* Where line i of L, with its prefix, starts in the text indent gives
\* (0-based), for prefixes of w spaces.
RECURSIVE OffsetOf(_, _, _)
OffsetOf(L, w, i) ==
    IF i <= 1 THEN 0
    ELSE OffsetOf(L, w, i - 1) + (IF i > 2 THEN w ELSE 0) + Len(L[i - 1]) + 1

\* C3: indent(width, src) is the lines of src in their order, the first
\* without prefix, each later one after exactly width spaces, each followed
\* by one newline, and nothing else; for empty src it is empty.
C3_IndentShape ==
    (phase = "indent" /\ pc = "ret") =>
        LET L == LinesOf(src)
        IN  /\ Len(result) = OffsetOf(L, width, Len(L) + 1)
            /\ \A i \in 1..Len(L) :
                   LET p == IF i = 1 THEN 0 ELSE width
                       o == OffsetOf(L, width, i)
                   IN  /\ SubSeq(result, o + 1, o + p) = Spaces(p)
                       /\ SubSeq(result, o + p + 1, o + p + Len(L[i])) = L[i]
                       /\ result[o + p + Len(L[i]) + 1] = NL
            /\ src = <<>> => result = <<>>

C3_Witness ==
    /\ phase = "indent"
    /\ pc = "ret"
    /\ width = 2
    /\ src = <<"a", NL, NL, "a">>
    /\ result = <<"a", NL, SP, SP, NL, SP, SP, "a", NL>>

\* ---- C4 ------------------------------------------------------------------------
\* C4 as stated: indent(0, src) = src for every src.
C4_WidthZeroIsCopy ==
    (phase = "indent" /\ pc = "ret" /\ width = 0) => result = src

\* C4 amended: indent(0, src) = src for every src that is empty, or that ends
\* with a newline and has no "\r" right before a newline.
C4_WidthZeroCopiesTerminated ==
    (/\ phase = "indent" /\ pc = "ret" /\ width = 0
     /\ \/ src = <<>>
        \/ /\ src[Len(src)] = NL
           /\ ~Contains(src, <<CR, NL>>))
        => result = src

C4_Witness ==
    /\ phase = "indent"
    /\ pc = "ret"
    /\ width = 0
    /\ src = <<"a", NL, SP, NL>>
    /\ result = src

\* ---- C9 ------------------------------------------------------------------------
\* The first position of the atom a in text; 0 when it is not there.
IndexOf(text, a) ==
    IF a \in Atoms(text)
    THEN CHOOSE i \in 1..Len(text) :
             /\ text[i] = a
             /\ \A j \in 1..(i - 1) : text[j] # a
    ELSE 0

\* C9: for a pipeline of one stage with stall "s1" and no flush, and clock
\* Posedge("clk"), the text returned holds exactly one call of status, that
\* call has the arguments s1 and 1'b0, and the trigger of the always block
\* reads "posedge clk".
C9_OneStageReport ==
    (/\ pc = "done"
     /\ Len(pipe.stages) = 1
     /\ pipe.stages[1].stall = << <<"s1">> >>
     /\ pipe.stages[1].flush = <<>>
     /\ pipe.clock = Posedge(<<"clk">>))
        => /\ AtomCount("status(", output) = 1
           /\ Contains(output, <<"status(", "s1", ",", SP, "1'b0", "));", NL>>)
           /\ Contains(output, <<"always @(", "posedge", SP, "clk", ") begin", NL>>)

C9_Witness ==
    /\ pc = "done"
    /\ Len(pipe.stages) = 1
    /\ pipe.stages[1].stall = << <<"s1">> >>
    /\ pipe.stages[1].flush = <<>>
    /\ pipe.clock = Posedge(<<"clk">>)
    /\ pipe.hazards # <<>>
    /\ pipe.forwards # <<>>
    /\ Contains(output, <<"status(", "s1", ",", SP, "1'b0", "));", NL>>)

\* ---- C10 -----------------------------------------------------------------------
\* The text of the output between the header of the hazards and the header
\* of the forwards.
HazardsSection ==
    SubSeq(output, IndexOf(output, "    $display(\"= HAZARDS =\");") + 1,
                   IndexOf(output, "    $display(\"= FORWARDS =\");") - 1)

\* C10: for a pipeline without hazards the rendered block of hazards is the
\* empty text, and the output holds no call of hazard_mark between the
\* "= HAZARDS =" header and the "= FORWARDS =" header: only the indentation of
\* the empty block and the `$display();` that closes the section.
C10_NoHazardLines ==
    (pc = "done" /\ pipe.hazards = <<>>)
        => /\ hazards_ = <<>>
           /\ ~("hazard_mark(" \in Atoms(HazardsSection))
           /\ HazardsSection = <<NL, "    ", NL, "    $display();", NL>>

C10_Witness ==
    /\ pc = "done"
    /\ pipe.hazards = <<>>
    /\ pipe.stages # <<>>
    /\ pipe.forwards # <<>>
    /\ "forward_mark(" \in Atoms(output)
    /\ HazardsSection = <<NL, "    ", NL, "    $display();", NL>>

====
